---- MODULE Spec2Model ----
(***************************************************************************)
(* Model of the multi-tenant event relay of pms_map_service:               *)
(*   app/main.py          WebSocketManager (the socket hub), the ingestion *)
(*                        routes, the /ws endpoint, the config routes      *)
(*   app/mqtt_manager.py  MqttClientWrapper (one broker link) and          *)
(*                        ConnectionManager (tenant -> link, configs)      *)
(*                                                                         *)
(* Scheduling.  All handlers are coroutines of one asyncio event loop, so  *)
(* a step of the model is the code a coroutine runs between two            *)
(* suspensions (a handler's first step starts where its first await, of    *)
(* accept() or of the request body, returns).  A coroutine suspends at an  *)
(* I/O await (accept, request.json, send_json, receive_text) and at        *)
(* `async with lock` when                                                  *)
(* the lock is held or has waiters; asyncio.Lock.acquire returns without   *)
(* suspending when the lock is free and nobody waits, and wakes its        *)
(* waiters in FIFO order.  ConnectionManager never awaits while it holds   *)
(* its lock, so that lock is free whenever a coroutine reaches it and each *)
(* ConnectionManager method runs to completion inside one step; its        *)
(* methods are the operators EnsureConnection, DisconnectUser, SetConfig   *)
(* on the manager's three maps.  WebSocketManager.broadcast_to_user keeps  *)
(* its lock across every send_json, so the hub lock is modelled with its   *)
(* holder and its waiter queue.                                            *)
(***************************************************************************)
EXTENDS Integers, Sequences, FiniteSets, TLC

\* ---------------------------------------------------------------- bounds
MaxLinks == 2            \* MqttClientWrapper objects constructed in a run

\* ------------------------------------------------------------- universes
Tenants  == {"t1", "t2"}                 \* valid user keys
Sockets  == {"s1", "s2", "s3"}           \* WebSocket objects
Requests == {"r1", "r2"}                     \* HTTP requests in flight
Procs    == Sockets \cup Requests
Hosts    == {"hA"}

NoProc == "-"
NoKey  == "-"
None   == "None"                         \* Python None (as a dict.get result)

EventRoutes == {"ingest", "status", "arrival", "exception", "control"}
Routes      == EventRoutes \cup {"config", "get_config"}
IngestTypes == {"log"}                   \* payload.type of /api/ingest

\* what `await connection.send_json(data)` can do
Caught       == {"WebSocketDisconnect", "RuntimeError"}
SendOutcomes == {"ok", "OtherError"} \cup Caught

\* ------------------------------------------------------ dict helpers
Put(f, k, v) == [x \in DOMAIN f \cup {k} |-> IF x = k THEN v ELSE f[x]]
Del(f, k)    == [x \in DOMAIN f \ {k} |-> f[x]]
EmptyMap     == [x \in {} |-> x]
Truthy(x)    == x \notin {None, ""}      \* truth value of a str-or-None

\* dict.get(key) for the string-valued keys of a config
Get(d, k) == IF k \in DOMAIN d THEN d[k] ELSE None

\* ------------------------------------------------------------- configs
CfgA == [host |-> "hA", port |-> 1883, username |-> "u", password |-> "p",
         subscribe_topic |-> "in/a", publish_topic |-> "default",
         topics_by_type |-> [x \in {"arrival"} |-> "x/y"]]
CfgB == [host |-> "hA", port |-> 1883, subscribe_topic |-> "",
         topics_by_type |-> [x \in {"status", "arrival"} |->
                               IF x = "status" THEN "" ELSE "b/arr"]]
EmptyCfg == EmptyMap                     \* the JSON body {}
Configs  == {CfgA, CfgB, EmptyCfg}

\* ------------------------------------------------------------ messages
\* configs for topic resolution: the per-type map absent, empty, with an
\* entry, with an empty entry; the default topic absent, empty, set
ByTypeMaps ==
  {EmptyMap, [x \in {"arrival"} |-> "x/y"], [x \in {"arrival"} |-> ""],
   [x \in {"arrival", "status"} |-> IF x = "arrival" THEN "" ELSE "s/t"]}
PublishTopics == {"", "default"}
BaseCfg == [host |-> "hA", port |-> 1883]
WithTopics(c) == {c} \cup {Put(c, "publish_topic", p) : p \in PublishTopics}
PublishConfigs ==
  UNION {WithTopics(c) : c \in {BaseCfg} \cup {Put(BaseCfg, "topics_by_type", m) : m \in ByTypeMaps}}
EventTypes == {"arrival", "status", "control", "unknown"}

NoMsg == [type |-> "none", data |-> "none"]
StatusMsg(text) == [type |-> "system_status", data |-> text]

VARIABLES
  active_connections,  \* WebSocketManager.active_connections: user_key -> set
  ws_locked,           \* ws_manager.lock: the coroutine holding it, or NoProc
  ws_waiters,          \* ws_manager.lock: coroutines suspended in acquire()
  configs,             \* ConnectionManager.configs
  clients,             \* ConnectionManager.clients: user_key -> wrapper id
  links,               \* the MqttClientWrapper objects alive, by id
  nlinks,              \* MqttClientWrapper objects constructed so far
  broker_up,           \* hosts whose broker accepts a connection
  proc,                \* per coroutine: position and locals
  mqtt_inbound,        \* messages the broker transport delivered
  loop_tasks           \* message callbacks handed to the event loop

vars == <<active_connections, ws_locked, ws_waiters, configs, clients, links, nlinks,
          broker_up, proc, mqtt_inbound, loop_tasks>>

\* ============================================== MqttClientWrapper
\* MqttClientWrapper.__init__
NewWrapper(user_key, config) ==
  [user_key |-> user_key, config |-> config, is_connected |-> FALSE]

\* whether self.client.connect(host, port, 60) (and the lookups around it)
\* returns instead of raising
ConnectSucceeds(config, up) ==
  /\ "host" \in DOMAIN config
  /\ "port" \in DOMAIN config
  /\ config.host \in up

\* MqttClientWrapper.connect: the wrapper afterwards
Connect(w, up) == [w EXCEPT !.is_connected = ConnectSucceeds(w.config, up)]

\* MqttClientWrapper.disconnect: the wrapper afterwards
Disconnect(w) == IF w.is_connected THEN [w EXCEPT !.is_connected = FALSE] ELSE w

\* mutant: the per-type entry is used as it is, without the `or` fallback
ResolveTopic_NoFallback(config, type) ==
  LET by_type == IF "topics_by_type" \in DOMAIN config
                 THEN config.topics_by_type ELSE EmptyMap
  IN IF type \in DOMAIN by_type THEN by_type[type] ELSE Get(config, "publish_topic")

\* topic = config.get("topics_by_type", {}).get(type) or config.get("publish_topic")
ResolveTopic(config, type) ==
  LET by_type == IF "topics_by_type" \in DOMAIN config
                 THEN config.topics_by_type ELSE EmptyMap
      first   == Get(by_type, type)
  IN IF Truthy(first) THEN first ELSE Get(config, "publish_topic")

\* MqttClientWrapper.publish: the set of (topic, payload) handed to paho
Publish(w, data) ==
  IF ~w.is_connected THEN {}
  ELSE LET topic == ResolveTopic(w.config, data.type)
       IN IF Truthy(topic) THEN {[topic |-> topic, payload |-> data]} ELSE {}

\* ============================================== ConnectionManager
\* the manager's maps as one value
Mgr == [configs |-> configs, clients |-> clients, links |-> links,
        nlinks |-> nlinks]

\* reference counting: a wrapper lives while the clients map holds it or its
\* network loop runs (loop_start's thread holds the client and its callbacks)
Collect(m) ==
  LET held == {m.clients[k] : k \in DOMAIN m.clients}
      live == {i \in DOMAIN m.links : i \in held \/ m.links[i].is_connected}
  IN [m EXCEPT !.links = [i \in live |-> m.links[i]]]

\* ConnectionManager.get_client
GetClient(m, user_key) ==
  IF user_key \in DOMAIN m.clients THEN {m.links[m.clients[user_key]]} ELSE {}

\* `client and client.is_connected`
ClientConnected(m, user_key) ==
  \E c \in GetClient(m, user_key) : c.is_connected

\* `if user_config:` in ensure_connection
HasConfig(m, user_key) ==
  user_key \in DOMAIN m.configs /\ DOMAIN m.configs[user_key] # {}

\* mutant: ensure_connection without its `if user_config:` test
EnsureConnection_NoConfigTest(m, user_key, up) ==
  IF ClientConnected(m, user_key) THEN m
  ELSE LET cfg == IF user_key \in DOMAIN m.configs THEN m.configs[user_key]
                  ELSE EmptyCfg
           w   == Connect(NewWrapper(user_key, cfg), up)
           id  == m.nlinks + 1
       IN Collect([m EXCEPT !.nlinks = id,
                            !.links = Put(@, id, w),
                            !.clients = IF w.is_connected
                                        THEN Put(@, user_key, id) ELSE @])

\* mutant: a wrapper whose connect() raised is stored in the map all the same
EnsureConnection_StoreOnFailure(m, user_key, up) ==
  IF ClientConnected(m, user_key) THEN m
  ELSE IF ~HasConfig(m, user_key) THEN m
  ELSE LET w  == Connect(NewWrapper(user_key, m.configs[user_key]), up)
           id == m.nlinks + 1
       IN Collect([m EXCEPT !.nlinks = id,
                            !.links = Put(@, id, w),
                            !.clients = Put(@, user_key, id)])

\* mutant: ensure_connection without its `Already connected` return
EnsureConnection_NoReturn(m, user_key, up) ==
  IF ~HasConfig(m, user_key) THEN m
  ELSE LET w  == Connect(NewWrapper(user_key, m.configs[user_key]), up)
           id == m.nlinks + 1
       IN Collect([m EXCEPT !.nlinks = id,
                            !.links = Put(@, id, w),
                            !.clients = IF w.is_connected
                                        THEN Put(@, user_key, id) ELSE @])

\* ConnectionManager.ensure_connection
EnsureConnection(m, user_key, up) ==
  IF ClientConnected(m, user_key) THEN m
  ELSE IF ~HasConfig(m, user_key) THEN m
  ELSE LET w  == Connect(NewWrapper(user_key, m.configs[user_key]), up)
           id == m.nlinks + 1
       IN Collect([m EXCEPT !.nlinks = id,
                            !.links = Put(@, id, w),
                            !.clients = IF w.is_connected
                                        THEN Put(@, user_key, id) ELSE @])

\* mutant: disconnect_user disconnects the wrapper and leaves it in the map
DisconnectUser_KeepEntry(m, user_key) ==
  IF user_key \in DOMAIN m.clients
  THEN Collect([m EXCEPT !.links[m.clients[user_key]] = Disconnect(@)])
  ELSE m

\* mutant: disconnect_user pops the wrapper and never calls its disconnect()
DisconnectUser_PopOnly(m, user_key) ==
  IF user_key \in DOMAIN m.clients
  THEN Collect([m EXCEPT !.clients = Del(@, user_key)])
  ELSE m

\* ConnectionManager.disconnect_user
DisconnectUser(m, user_key) ==
  IF user_key \in DOMAIN m.clients
  THEN Collect([m EXCEPT !.clients = Del(@, user_key),
                         !.links[m.clients[user_key]] = Disconnect(@)])
  ELSE m

\* mutant: set_config without its disconnect_user call
SetConfig_NoDisconnect(m, user_key, config, up) ==
  EnsureConnection([m EXCEPT !.configs = Put(@, user_key, config)], user_key, up)

\* mutant: set_config updates the stored config key by key instead of
\* replacing it
SetConfig_Merge(m, user_key, config, up) ==
  LET old == IF user_key \in DOMAIN m.configs THEN m.configs[user_key] ELSE EmptyMap
      new == [k \in DOMAIN old \cup DOMAIN config |->
                IF k \in DOMAIN config THEN config[k] ELSE old[k]]
  IN EnsureConnection(
       DisconnectUser([m EXCEPT !.configs = Put(@, user_key, new)], user_key),
       user_key, up)

\* ConnectionManager.set_config (the file is written by _save_configs)
SetConfig(m, user_key, config, up) ==
  EnsureConnection(
    DisconnectUser([m EXCEPT !.configs = Put(@, user_key, config)], user_key),
    user_key, up)

\* ConnectionManager._save_configs: whether it raises when writing the file
\* succeeds (io_ok) or fails; the IOError is caught and logged.  The file is
\* read at import only, so its content is no state of the running program.
SaveConfigsRaises(io_ok) == FALSE

\* ConnectionManager.get_config, then get_mqtt_config's `if config: ... return {}`
GetConfig(m, user_key) ==
  IF HasConfig(m, user_key) THEN m.configs[user_key] ELSE EmptyCfg

\* ensure_connection would construct a wrapper
Constructs(m, user_key) == ~ClientConnected(m, user_key) /\ HasConfig(m, user_key)

\* the bound on constructed wrappers
MayConstruct(m) == m.nlinks < MaxLinks

SetMgr(m) ==
  /\ configs' = m.configs
  /\ clients' = m.clients
  /\ links' = m.links
  /\ nlinks' = m.nlinks

\* ============================================== coroutines
\* pc:       idle | wait_admit | wait_bcast | sending | receiving | wait_close
\*           | crashed | done
\* phase:    which broadcast_to_user call the coroutine is in
\* snapshot: list(self.active_connections[user_key]) of that call
\* todo:     the part of the snapshot the for loop has not reached
\* delivered, removed, failed: what the sends of that call did
IdleProc ==
  [pc |-> "idle", user_key |-> NoKey, route |-> "none", phase |-> "none",
   msg |-> NoMsg, cfg |-> EmptyCfg, malformed |-> FALSE,
   snapshot |-> {}, todo |-> {}, delivered |-> {}, removed |-> {},
   failed |-> {}, result |-> "none", pub |-> {}, had_link |-> FALSE,
   io_ok |-> TRUE]

NoFrame(rec) ==
  [rec EXCEPT !.snapshot = {}, !.todo = {}, !.delivered = {},
              !.removed = {}, !.failed = {}]

\* self.active_connections.get(user_key), an absent key read as no sockets
SocketsOf(ac, user_key) == IF user_key \in DOMAIN ac THEN ac[user_key] ELSE {}

\* the code that follows a broadcast_to_user call that returned
Done(rec, m) ==
  CASE rec.phase = "ws_status" ->          \* websocket_endpoint: the read loop
         NoFrame([rec EXCEPT !.pc = "receiving"])
    [] rec.phase = "event" ->              \* post_*: forward to MQTT, return
         [rec EXCEPT !.pc = "done", !.result = "received",
                     !.pub = IF rec.route = "ingest" THEN {}
                             ELSE UNION {Publish(c, rec.msg) :
                                           c \in GetClient(m, rec.user_key)}]
    [] rec.phase = "cfg_ok" ->             \* set_mqtt_config: return success
         [rec EXCEPT !.pc = "done", !.result = "success"]
    [] OTHER ->                            \* set_mqtt_config: HTTPException 400
         [rec EXCEPT !.pc = "done", !.result = "400"]

\* the code that follows a broadcast_to_user call that raised
\* (phase cfg_ok continues in the except clause, see Escapes)
Raised(rec) ==
  IF rec.phase = "ws_status"
  THEN NoFrame([rec EXCEPT !.pc = "crashed"])  \* raised before the try block
  ELSE [rec EXCEPT !.pc = "done", !.result = "500"]

\* mutant: the fan-out iterates over the sockets of every tenant
BcastEnter_AllTenants(rec, p, ac, m) ==
  LET snap == UNION {ac[k] : k \in DOMAIN ac}
  IN IF snap = {}
     THEN [rec |-> Done(NoFrame(rec), m), locked |-> NoProc]
     ELSE [rec |-> [NoFrame(rec) EXCEPT !.pc = "sending", !.snapshot = snap,
                                        !.todo = snap],
           locked |-> p]

\* broadcast_to_user with the lock just acquired: snapshot, then the first send
BcastEnter(rec, p, ac, m) ==
  LET snap == SocketsOf(ac, rec.user_key)
  IN IF snap = {}
     THEN [rec |-> Done(NoFrame(rec), m), locked |-> NoProc]
     ELSE [rec |-> [NoFrame(rec) EXCEPT !.pc = "sending", !.snapshot = snap,
                                        !.todo = snap],
           locked |-> p]

\* mutant: acquire() takes a free lock although earlier coroutines wait for it
BcastBegin_Barging(rec, p, holder, w, ac, m) ==
  IF holder = NoProc
  THEN LET e == BcastEnter(rec, p, ac, m)
       IN [rec |-> e.rec, locked |-> e.locked, waiters |-> w]
  ELSE [rec |-> [rec EXCEPT !.pc = "wait_bcast"], locked |-> holder,
        waiters |-> Append(w, p)]

\* broadcast_to_user reaching `async with self.lock`
BcastBegin(rec, p, holder, w, ac, m) ==
  IF holder = NoProc /\ w = <<>>
  THEN LET e == BcastEnter(rec, p, ac, m)
       IN [rec |-> e.rec, locked |-> e.locked, waiters |-> w]
  ELSE [rec |-> [rec EXCEPT !.pc = "wait_bcast"], locked |-> holder,
        waiters |-> Append(w, p)]

LockFree == ws_locked = NoProc /\ ws_waiters = <<>>
Woken(p) == ws_locked = NoProc /\ ws_waiters # <<>> /\ Head(ws_waiters) = p

\* ---------------------------------------------- websocket_endpoint
\* mutant: the initial status is computed from the client found before
\* ensure_connection ran
Admit_StatusBeforeEnsure(s, t, w) ==
  LET ac1 == Put(active_connections, t, SocketsOf(active_connections, t) \cup {s})
      m1  == EnsureConnection(Mgr, t, broker_up)
      txt == IF ClientConnected(Mgr, t) THEN "Connected"
             ELSE "Not Configured or Disconnected"
      b   == BcastBegin([IdleProc EXCEPT !.user_key = t, !.route = "ws",
                                         !.phase = "ws_status",
                                         !.msg = StatusMsg(txt)],
                        s, NoProc, w, ac1, m1)
  IN /\ Constructs(Mgr, t) => MayConstruct(Mgr)
     /\ active_connections' = ac1
     /\ SetMgr(m1)
     /\ proc' = [proc EXCEPT ![s] = b.rec]
     /\ ws_locked' = b.locked
     /\ ws_waiters' = b.waiters
     /\ UNCHANGED <<broker_up, mqtt_inbound, loop_tasks>>

\* ws_manager.connect inside the lock, mqtt_manager.ensure_connection, the
\* initial status, and the start of its broadcast; w is the waiter queue
Admit(s, t, w) ==
  LET ac1 == Put(active_connections, t, SocketsOf(active_connections, t) \cup {s})
      m1  == EnsureConnection(Mgr, t, broker_up)
      txt == IF ClientConnected(m1, t) THEN "Connected"
             ELSE "Not Configured or Disconnected"
      b   == BcastBegin([IdleProc EXCEPT !.user_key = t, !.route = "ws",
                                         !.phase = "ws_status",
                                         !.msg = StatusMsg(txt)],
                        s, NoProc, w, ac1, m1)
  IN /\ Constructs(Mgr, t) => MayConstruct(Mgr)
     /\ active_connections' = ac1
     /\ SetMgr(m1)
     /\ proc' = [proc EXCEPT ![s] = b.rec]
     /\ ws_locked' = b.locked
     /\ ws_waiters' = b.waiters
     /\ UNCHANGED <<broker_up, mqtt_inbound, loop_tasks>>

\* a client opens /ws?token=t with a valid key; after accept() the handler
\* reaches the lock in ws_manager.connect (nothing shared is read before it)
WsConnect(s, t) ==
  /\ proc[s].pc = "idle"
  /\ IF LockFree THEN Admit(s, t, ws_waiters)
     ELSE /\ ws_waiters' = Append(ws_waiters, s)
          /\ proc' = [proc EXCEPT ![s] = [IdleProc EXCEPT !.pc = "wait_admit",
                                           !.user_key = t, !.route = "ws"]]
          /\ UNCHANGED <<active_connections, ws_locked, configs, clients, links, nlinks,
                         broker_up, mqtt_inbound, loop_tasks>>

WsAdmitResume(s) ==
  /\ proc[s].pc = "wait_admit"
  /\ Woken(s)
  /\ Admit(s, proc[s].user_key, Tail(ws_waiters))

\* mutant: the finally block calls disconnect_user without the idle check
Close_AlwaysTeardown(s, w) ==
  LET t    == proc[s].user_key
      ac   == active_connections
      ac1  == IF t \in DOMAIN ac /\ s \in ac[t]
              THEN IF ac[t] \ {s} = {} THEN Del(ac, t)
                   ELSE [ac EXCEPT ![t] = @ \ {s}]
              ELSE ac
  IN /\ active_connections' = ac1
     /\ SetMgr(DisconnectUser(Mgr, t))
     /\ proc' = [proc EXCEPT ![s] = IdleProc]
     /\ ws_locked' = NoProc
     /\ ws_waiters' = w
     /\ UNCHANGED <<broker_up, mqtt_inbound, loop_tasks>>

\* the finally block: ws_manager.disconnect inside the lock, then the idle
\* check and mqtt_manager.disconnect_user
Close(s, w) ==
  LET t    == proc[s].user_key
      ac   == active_connections
      ac1  == IF t \in DOMAIN ac /\ s \in ac[t]
              THEN IF ac[t] \ {s} = {} THEN Del(ac, t)
                   ELSE [ac EXCEPT ![t] = @ \ {s}]
              ELSE ac
      m1   == IF SocketsOf(ac1, t) = {} THEN DisconnectUser(Mgr, t) ELSE Mgr
  IN /\ active_connections' = ac1
     /\ SetMgr(m1)
     /\ proc' = [proc EXCEPT ![s] = IdleProc]
     /\ ws_locked' = NoProc
     /\ ws_waiters' = w
     /\ UNCHANGED <<broker_up, mqtt_inbound, loop_tasks>>

\* mutant: ws_manager.disconnect removes the socket without taking the lock
WsDisconnect_NoLock(s) ==
  /\ proc[s].pc = "receiving"
  /\ LET t   == proc[s].user_key
         ac  == active_connections
         ac1 == IF t \in DOMAIN ac /\ s \in ac[t]
                THEN IF ac[t] \ {s} = {} THEN Del(ac, t)
                     ELSE [ac EXCEPT ![t] = @ \ {s}]
                ELSE ac
         m1  == IF SocketsOf(ac1, t) = {} THEN DisconnectUser(Mgr, t) ELSE Mgr
     IN /\ active_connections' = ac1
        /\ SetMgr(m1)
        /\ proc' = [proc EXCEPT ![s] = IdleProc]
        /\ UNCHANGED <<ws_locked, ws_waiters, broker_up, mqtt_inbound, loop_tasks>>

\* receive_text raises WebSocketDisconnect: ws_manager.disconnect reaches the lock
WsDisconnect(s) ==
  /\ proc[s].pc = "receiving"
  /\ IF LockFree THEN Close(s, ws_waiters)
     ELSE /\ ws_waiters' = Append(ws_waiters, s)
          /\ proc' = [proc EXCEPT ![s].pc = "wait_close"]
          /\ UNCHANGED <<active_connections, ws_locked, configs, clients, links, nlinks,
                         broker_up, mqtt_inbound, loop_tasks>>

WsCloseResume(s) ==
  /\ proc[s].pc = "wait_close"
  /\ Woken(s)
  /\ Close(s, Tail(ws_waiters))

\* ---------------------------------------------- broadcast_to_user
\* a broadcast suspended at the lock is woken: snapshot and first send
BcastResume(p) ==
  /\ proc[p].pc = "wait_bcast"
  /\ Woken(p)
  /\ LET e == BcastEnter(proc[p], p, active_connections, Mgr)
     IN /\ proc' = [proc EXCEPT ![p] = e.rec]
        /\ ws_locked' = e.locked
  /\ ws_waiters' = Tail(ws_waiters)
  /\ UNCHANGED <<active_connections, configs, clients, links, nlinks, broker_up, mqtt_inbound, loop_tasks>>

\* the frame after `await connection.send_json(data)` on c ended with outcome o
AfterSend(rec, c, o) ==
  [rec EXCEPT !.todo = @ \ {c},
              !.delivered = IF o = "ok" THEN @ \cup {c} ELSE @,
              !.removed = IF o \in Caught THEN @ \cup {c} ELSE @,
              !.failed = IF o # "ok" THEN @ \cup {c} ELSE @]

\* the hub's map after that send: the except clause removes c
AfterSendMap(ac, user_key, c, o) ==
  IF o \in Caught THEN [ac EXCEPT ![user_key] = @ \ {c}] ELSE ac

\* an exception the except clause does not name leaves broadcast_to_user;
\* in set_mqtt_config's try block it is caught and the error status is broadcast
Escapes(p, rec, ac) ==
  IF rec.phase = "cfg_ok"
  THEN LET b == BcastBegin([rec EXCEPT !.phase = "cfg_err",
                                       !.msg = StatusMsg("Error: send failed")],
                           p, NoProc, ws_waiters, ac, Mgr)
       IN /\ proc' = [proc EXCEPT ![p] = b.rec]
          /\ ws_locked' = b.locked
          /\ ws_waiters' = b.waiters
  ELSE /\ proc' = [proc EXCEPT ![p] = Raised(rec)]
       /\ ws_locked' = NoProc
       /\ UNCHANGED ws_waiters

\* one iteration of the for loop of broadcast_to_user, and, after the last
\* one, the release of the lock and the caller's code up to its next suspension
Send(p) ==
  /\ proc[p].pc = "sending"
  /\ \E c \in proc[p].todo, o \in SendOutcomes :
       LET rec == AfterSend(proc[p], c, o)
           ac1 == AfterSendMap(active_connections, proc[p].user_key, c, o)
       IN /\ active_connections' = ac1
          /\ IF o = "OtherError" THEN Escapes(p, rec, ac1)
             ELSE IF rec.todo = {}
             THEN /\ proc' = [proc EXCEPT ![p] = Done(rec, Mgr)]
                  /\ ws_locked' = NoProc
                  /\ UNCHANGED ws_waiters
             ELSE /\ proc' = [proc EXCEPT ![p] = rec]
                  /\ UNCHANGED <<ws_locked, ws_waiters>>
  /\ UNCHANGED <<configs, clients, links, nlinks, broker_up, mqtt_inbound,
                 loop_tasks>>

\* ---------------------------------------------- HTTP routes
EventType(route) == IF route = "ingest" THEN "log" ELSE route

ConnectedTo(config) ==
  IF "host" \notin DOMAIN config THEN "Connected to None"
  ELSE IF config.host = "hA" THEN "Connected to hA" ELSE "Connected to hB"

\* the locals of a request handler whose body has been read
Request(route, t, config) ==
  [IdleProc EXCEPT !.route = route, !.user_key = t, !.cfg = config,
                   !.msg = IF route \in {"config", "get_config"} THEN NoMsg
                           ELSE [type |-> EventType(route), data |-> "d"]]

\* a body that does not parse: 422 from the IngestData model, HTTPException
\* 400 in post_status .. post_control, an uncaught error in set_mqtt_config
PostMalformed(r, route, t) ==
  /\ proc[r].pc = "idle"
  /\ proc' = [proc EXCEPT ![r] =
       [Request(route, t, EmptyCfg) EXCEPT
          !.pc = "done", !.malformed = TRUE,
          !.result = IF route = "ingest" THEN "422"
                     ELSE IF route = "config" THEN "500" ELSE "400"]]
  /\ UNCHANGED <<active_connections, ws_locked, ws_waiters, configs, clients,
                 links, nlinks, broker_up, mqtt_inbound, loop_tasks>>

\* post_ingest, post_status, post_arrival, post_exception, post_control, from
\* the parsed body (nothing shared is read before it) to the lock
PostEvent(r, route, t) ==
  /\ proc[r].pc = "idle"
  /\ LET b == BcastBegin([Request(route, t, EmptyCfg) EXCEPT !.phase = "event"],
                         r, ws_locked, ws_waiters, active_connections, Mgr)
     IN /\ proc' = [proc EXCEPT ![r] = b.rec]
        /\ ws_locked' = b.locked
        /\ ws_waiters' = b.waiters
  /\ UNCHANGED <<active_connections, configs, clients, links, nlinks, broker_up, mqtt_inbound, loop_tasks>>

\* some wrapper of the tenant, in the map or not, reports connected
HasLiveLink(m, user_key) ==
  \E i \in DOMAIN m.links :
     m.links[i].user_key = user_key /\ m.links[i].is_connected

\* set_mqtt_config after mqtt_manager.set_config left the manager as m1: the
\* test of the client and the start of the status broadcast
ConfigReply(r, t, config, m1, io_ok) ==
  LET ok  == ClientConnected(m1, t)
      rec == [Request("config", t, config) EXCEPT
                !.phase = IF ok THEN "cfg_ok" ELSE "cfg_err",
                !.msg = IF ok THEN StatusMsg(ConnectedTo(config))
                        ELSE StatusMsg("Error: Failed to establish MQTT connection."),
                !.had_link = HasLiveLink(m1, t),
                !.io_ok = io_ok]
      b   == BcastBegin(rec, r, ws_locked, ws_waiters, active_connections, m1)
  IN /\ SetMgr(m1)
     /\ proc' = [proc EXCEPT ![r] = b.rec]
     /\ ws_locked' = b.locked
     /\ ws_waiters' = b.waiters

\* set_mqtt_config from the parsed body: mqtt_manager.set_config, which never
\* suspends (its lock is free whenever a coroutine runs), and the reply
SetMqttConfig(r, t, config) ==
  /\ proc[r].pc = "idle"
  /\ DOMAIN config # {} => MayConstruct(Mgr)
  /\ \E io_ok \in BOOLEAN :
       ConfigReply(r, t, config, SetConfig(Mgr, t, config, broker_up), io_ok)
  /\ UNCHANGED <<active_connections, broker_up, mqtt_inbound, loop_tasks>>

\* set_config one locked block at a time, for a scheduler that may switch
\* coroutines at each of its awaits (the event loop's schedules are among
\* these): `async with self.lock: self.configs[user_key] = config`
SetConfigStore(r, t, config) ==
  /\ proc[r].pc = "idle"
  /\ configs' = Put(configs, t, config)
  /\ proc' = [proc EXCEPT ![r] = [Request("config", t, config) EXCEPT !.pc = "stored"]]
  /\ UNCHANGED <<active_connections, ws_locked, ws_waiters, clients, links,
                 nlinks, broker_up, mqtt_inbound, loop_tasks>>

\* `await self._save_configs()`
SetConfigSave(r) ==
  /\ proc[r].pc = "stored"
  /\ \E io_ok \in BOOLEAN :
       /\ ~SaveConfigsRaises(io_ok)
       /\ proc' = [proc EXCEPT ![r].pc = "saved", ![r].io_ok = io_ok]
  /\ UNCHANGED <<active_connections, ws_locked, ws_waiters, configs, clients,
                 links, nlinks, broker_up, mqtt_inbound, loop_tasks>>

\* mutant: set_config goes on to ensure_connection without disconnect_user
SetConfigDisconnect_Skip(r) ==
  /\ proc[r].pc = "saved"
  /\ proc' = [proc EXCEPT ![r].pc = "dropped"]
  /\ UNCHANGED <<active_connections, ws_locked, ws_waiters, configs, clients,
                 links, nlinks, broker_up, mqtt_inbound, loop_tasks>>

\* `await self.disconnect_user(user_key)`
SetConfigDisconnect(r) ==
  /\ proc[r].pc = "saved"
  /\ SetMgr(DisconnectUser(Mgr, proc[r].user_key))
  /\ proc' = [proc EXCEPT ![r].pc = "dropped"]
  /\ UNCHANGED <<active_connections, ws_locked, ws_waiters, broker_up,
                 mqtt_inbound, loop_tasks>>

\* `await self.ensure_connection(user_key)`, then the reply
SetConfigEnsure(r) ==
  /\ proc[r].pc = "dropped"
  /\ Constructs(Mgr, proc[r].user_key) => MayConstruct(Mgr)
  /\ ConfigReply(r, proc[r].user_key, proc[r].cfg,
                 EnsureConnection(Mgr, proc[r].user_key, broker_up), proc[r].io_ok)
  /\ UNCHANGED <<active_connections, broker_up, mqtt_inbound, loop_tasks>>

\* MqttClientWrapper.publish called with an event on a wrapper that holds
\* config and whose is_connected is connected
PublishCall(r, config, connected, type) ==
  /\ proc[r].pc = "idle"
  /\ LET w   == [NewWrapper("t1", config) EXCEPT !.is_connected = connected]
         msg == [type |-> type, data |-> "d"]
     IN proc' = [proc EXCEPT ![r] =
          [IdleProc EXCEPT !.pc = "done", !.route = "publish", !.user_key = "t1",
                           !.cfg = config, !.had_link = connected, !.msg = msg,
                           !.pub = Publish(w, msg)]]
  /\ UNCHANGED <<active_connections, ws_locked, ws_waiters, configs, clients,
                 links, nlinks, broker_up, mqtt_inbound, loop_tasks>>

\* get_mqtt_config: the stored config, or {} when there is none
GetMqttConfig(r, t) ==
  /\ proc[r].pc = "idle"
  /\ proc' = [proc EXCEPT ![r] =
       [Request("get_config", t, GetConfig(Mgr, t)) EXCEPT
          !.pc = "done", !.result = "200"]]
  /\ UNCHANGED <<active_connections, ws_locked, ws_waiters, configs, clients,
                 links, nlinks, broker_up, mqtt_inbound, loop_tasks>>

\* the response is sent
ReqReturn(r) ==
  /\ proc[r].pc = "done"
  /\ proc' = [proc EXCEPT ![r] = IdleProc]
  /\ UNCHANGED <<active_connections, ws_locked, ws_waiters, configs, clients,
                 links, nlinks, broker_up, mqtt_inbound, loop_tasks>>

\* ---------------------------------------------- broker transport
MaxInbound == 1          \* inbound broker messages in a run

\* a wrapper whose network loop runs and which subscribed to a topic
Subscribed(w) == w.is_connected /\ Truthy(Get(w.config, "subscribe_topic"))

\* self.client.on_message: the lambda calls the coroutine function
\* on_mqtt_message_callback on the transport's thread; the call builds a
\* coroutine object and returns it to paho, which drops it; nothing is
\* submitted to the event loop
OnMessage(tasks, user_key) == tasks

\* payloads a broker can deliver: JSON objects with a timestamp that is or is
\* not an integer, and bytes that are not JSON
InboundPayloads ==
  {[json |-> TRUE, data |-> [status |-> "1", timestamp |-> "1700000000"]],
   [json |-> TRUE, data |-> [status |-> "1", timestamp |-> "abc"]],
   [json |-> FALSE, data |-> [raw_payload |-> "6162"]]}

\* on_mqtt_message_callback: the message it passes to broadcast_to_user when
\* it runs; the decoded JSON goes into "data" as it is
OnMqttMessageCallback(payload) == [type |-> "mqtt", data |-> payload.data]

\* the transport's thread delivers one message of the subscribed topic
MqttMessage(t) ==
  /\ \E i \in DOMAIN links : links[i].user_key = t /\ Subscribed(links[i])
  /\ mqtt_inbound < MaxInbound
  /\ mqtt_inbound' = mqtt_inbound + 1
  /\ loop_tasks' = OnMessage(loop_tasks, t)
  /\ UNCHANGED <<active_connections, ws_locked, ws_waiters, configs, clients,
                 links, nlinks, broker_up, proc>>

\* a broker becomes unreachable or reachable again
BrokerFlip(h) ==
  /\ broker_up' = IF h \in broker_up THEN broker_up \ {h} ELSE broker_up \cup {h}
  /\ UNCHANGED <<active_connections, ws_locked, ws_waiters, configs, clients,
                 links, nlinks, proc, mqtt_inbound, loop_tasks>>

\* ============================================== specification
\* what mqtt_configs.json can hold when the service starts
Files == {EmptyMap, [t \in {"t1"} |-> CfgA], [t \in Tenants |-> CfgA]}

\* the module-level objects after import: no socket, no client, and the
\* configs _load_configs read from a file in F
Boot(F) ==
  /\ active_connections = EmptyMap
  /\ ws_locked = NoProc
  /\ ws_waiters = <<>>
  /\ configs \in F
  /\ clients = EmptyMap
  /\ links = EmptyMap
  /\ nlinks = 0
  /\ broker_up = Hosts
  /\ proc = [p \in Procs |-> IdleProc]
  /\ mqtt_inbound = 0
  /\ loop_tasks = 0

\* the steps of a run, by the part of the program that takes them
\* clients open sockets: Use is the set of <<socket, key>> pairs
Opens(Use) ==
  \/ \E u \in Use : WsConnect(u[1], u[2])
  \/ \E u \in Use : WsAdmitResume(u[1])

\* clients close the sockets S
Closes(S) ==
  \/ \E s \in S : WsDisconnect(s)
  \/ \E s \in S : WsCloseResume(s)

\* the broadcasts of the coroutines P go on
Hub(P) ==
  \/ \E p \in P : BcastResume(p)
  \/ \E p \in P : Send(p)

\* requests R arrive with keys T on routes Rt, config bodies from Cf
Http(R, T, Rt, Cf) ==
  \/ \E r \in R, route \in Rt \ {"get_config"}, t \in T :
        PostMalformed(r, route, t)
  \/ \E r \in R, route \in Rt \cap EventRoutes, t \in T : PostEvent(r, route, t)
  \/ \E r \in R, t \in T, c \in Cf : SetMqttConfig(r, t, c)
  \/ \E r \in R, t \in IF "get_config" \in Rt THEN T ELSE {} :
        GetMqttConfig(r, t)
  \/ \E r \in R : ReqReturn(r)

\* the brokers of the tenants Tm send messages
Transport(Tm) == \E t \in Tm : MqttMessage(t)

\* brokers go down and come back
Env == \E h \in Hosts : BrokerFlip(h)

Step(Use, R, T, Rt, Cf, Tm) ==
  \/ Opens(Use)
  \/ Closes({u[1] : u \in Use})
  \/ Hub({u[1] : u \in Use} \cup R)
  \/ Http(R, T, Rt, Cf)
  \/ Transport(Tm)
  \/ Env

\* one tenant, two sockets, one request at a time, every route
Next == Step({"s1", "s2"} \X {"t1"}, {"r1"}, {"t1"}, Routes, Configs, {})

Init == Boot({EmptyMap})

Spec == Init /\ [][Next]_vars

\* two tenants: a socket of t1, a socket that either tenant opens, and
\* reconfigurations of both
NextTenants ==
  Step({<<"s1", "t1">>, <<"s2", "t1">>, <<"s2", "t2">>}, {"r1"}, Tenants,
       {"config"}, {CfgA}, {})

SpecTenants == Init /\ [][NextTenants]_vars

\* three clients open a socket with the key of a tenant whose config was
\* loaded at start; the broker stays reachable and nobody closes
InitEnsure == Boot({[t \in {"t1"} |-> CfgA]})

NextEnsure ==
  \/ Opens({"s1", "s2", "s3"} \X {"t1"})
  \/ Hub({"s1", "s2", "s3"})

SpecEnsure == InitEnsure /\ [][NextEnsure]_vars

\* one tenant whose config was loaded at start; its sockets come and go and
\* its broker goes down and comes back; no request
NextIdle == Step({"s1", "s2"} \X {"t1"}, {}, {}, {}, {}, {})

SpecIdle == InitEnsure /\ [][NextIdle]_vars

\* set_config calls R for tenants T with bodies Cf, one locked block at a time
Reconf(R, T, Cf) ==
  \/ \E r \in R, t \in T, c \in Cf : SetConfigStore(r, t, c)
  \/ \E r \in R : SetConfigSave(r)
  \/ \E r \in R : SetConfigDisconnect(r)
  \/ \E r \in R : SetConfigEnsure(r)
  \/ \E r \in R : ReqReturn(r)

\* two requests reconfigure one tenant whose broker stays reachable
NextReconf == Reconf({"r1", "r2"}, {"t1"}, {CfgA, CfgB})

SpecReconf == Init /\ [][NextReconf]_vars

\* set_config calls, one locked block at a time, overlapping each other and
\* the admission and the close of the tenant's socket, with a broker that
\* goes down and comes back
NextStale ==
  \/ Reconf({"r1", "r2"}, {"t1"}, Configs)
  \/ Opens({<<"s1", "t1">>})
  \/ Closes({"s1"})
  \/ Hub({"s1", "r1", "r2"})
  \/ Env

SpecStale == Init /\ [][NextStale]_vars

\* publish on every config, flag and event type
NextPublish ==
  \/ \E c \in PublishConfigs, b \in BOOLEAN, type \in EventTypes :
        PublishCall("r1", c, b, type)
  \/ ReqReturn("r1")

SpecPublish == Init /\ [][NextPublish]_vars

\* one tenant with a socket and a subscribed link; its broker sends messages
NextRelay == Step({<<"s1", "t1">>}, {"r1"}, {"t1"}, {"config"}, {CfgA}, {"t1"})

SpecRelay == Init /\ [][NextRelay]_vars

\* both ingestion legs: one socket, one request on the event routes, and the
\* tenant's broker delivering
NextIngest == Step({<<"s1", "t1">>}, {"r1"}, {"t1"}, EventRoutes, {CfgA}, {"t1"})

SpecIngest == Init /\ [][NextIngest]_vars

\* ============================================== claims
LiveLinks(t) == {i \in DOMAIN links : links[i].user_key = t /\ links[i].is_connected}

\* C1: in every reachable state each tenant has at most one wrapper whose
\* is_connected flag is true, counting the wrappers the clients map holds and
\* the ones it no longer holds.
C1_AtMostOneLiveLink == \A t \in Tenants : Cardinality(LiveLinks(t)) <= 1

\* C1 witness: both tenants hold a connected link, one of them created after
\* an earlier link was torn down or replaced.
C1_Witness ==
  /\ \A t \in Tenants : Cardinality(LiveLinks(t)) = 1
  /\ nlinks >= 2
  /\ \E s \in Sockets : proc[s].pc = "receiving"


\* the sockets whose handler has run ws_manager.connect and ensure_connection
Admitted == {s \in Sockets : proc[s].pc \in {"wait_bcast", "sending", "receiving",
                                              "wait_close", "crashed"}}

\* C2: with a stored config and a reachable broker, however the handlers of
\* N sockets of one tenant interleave, their ensure_connection calls make
\* exactly one connect attempt: as soon as one call returned, one wrapper has
\* been constructed and it is the connected link, and no later call
\* constructs another.
C2_OneConnectAttempt ==
  /\ nlinks <= 1
  /\ Admitted # {} =>
       /\ nlinks = 1
       /\ DOMAIN links = {1}
       /\ ClientConnected(Mgr, "t1")
       /\ clients["t1"] = 1

\* C2 witness: three handlers have all made their ensure_connection call.
C2_Witness == Cardinality(Admitted) = 3 /\ nlinks = 1

\* C3: a broadcast_to_user call that has ended, whatever made some of its
\* sends fail, has sent the message once to every socket of its snapshot whose
\* send did not fail, has removed exactly the sockets whose send failed, and
\* has gone through the whole snapshot.
C3_FanOutIsolatesFailures ==
  \A r \in Requests :
     proc[r].pc = "done" /\ proc[r].snapshot # {} =>
        /\ proc[r].todo = {}
        /\ proc[r].delivered = proc[r].snapshot \ proc[r].failed
        /\ proc[r].removed = proc[r].failed
        /\ SocketsOf(active_connections, proc[r].user_key) \cap proc[r].failed = {}

\* the handler of s runs ws_manager.connect and ensure_connection in this step
AdmitStep(s) ==
  /\ proc[s].pc \in {"idle", "wait_admit"}
  /\ proc'[s].pc \in {"wait_bcast", "sending", "receiving"}

\* the handler of s runs its finally block in this step
CloseStep(s) ==
  /\ proc[s].pc \in {"receiving", "wait_close"}
  /\ proc'[s].pc = "idle"

\* the broker of the tenant's stored config accepts connections
Reachable(t) == HasConfig(Mgr, t) /\ ConnectSucceeds(configs[t], broker_up)

SetStep(r, t) ==
  /\ proc[r].pc = "idle" /\ proc'[r].pc # "idle"
  /\ proc'[r].route = "config" /\ ~proc'[r].malformed
  /\ proc'[r].user_key = t

\* request r runs get_mqtt_config for t in this step
GetStep(r, t) ==
  /\ proc[r].pc = "idle"
  /\ proc'[r].route = "get_config" /\ proc'[r].user_key = t

\* what a getConfig(t) issued now returns
Stored(t) == IF t \in DOMAIN configs THEN configs[t] ELSE EmptyCfg

\* C5: a setConfig(T, C) step leaves C, whole and unmerged, as what getConfig(T)
\* returns, whether or not the connect that follows succeeds; no other step
\* changes it; and getConfig(T) returns it.
C5_ConfigRoundTrip ==
  [][\A t \in Tenants :
       /\ \A r \in Requests : SetStep(r, t) => Stored(t)' = proc'[r].cfg
       /\ (\A r \in Requests : ~SetStep(r, t)) => Stored(t)' = Stored(t)
       /\ \A r \in Requests :
            GetStep(r, t) => proc'[r].cfg = Stored(t) /\ proc'[r].result = "200"
    ]_vars

\* C5 witness: getConfig returns the second config, nested map included,
\* while the tenant has no connected link.
C5_Witness ==
  /\ proc["r1"].pc = "done" /\ proc["r1"].route = "get_config"
  /\ proc["r1"].cfg = CfgB
  /\ proc["r1"].cfg.topics_by_type["arrival"] = "b/arr"
  /\ nlinks >= 1
  /\ ~ClientConnected(Mgr, "t1")

\* both set_config calls have finished
BothDone ==
  \A r \in {"r1", "r2"} :
     proc[r].pc = "done" /\ proc[r].route = "config" /\ proc[r].user_key = "t1"

\* C6: once two overlapping setConfig calls for a tenant have both finished,
\* whatever the order of their steps, the tenant has exactly one connected
\* link, it is the one in the manager's map, and its config is the stored one,
\* that is the one stored last.
C6_ConcurrentReconfiguration ==
  BothDone =>
    /\ Cardinality(LiveLinks("t1")) = 1
    /\ "t1" \in DOMAIN clients
    /\ clients["t1"] \in LiveLinks("t1")
    /\ links[clients["t1"]].config = configs["t1"]
    /\ configs["t1"] \in {proc["r1"].cfg, proc["r2"].cfg}

\* C6 witness: both calls finished with different configs, two wrappers were
\* built, and the first call's config is the one in force.
C6_Witness ==
  /\ BothDone
  /\ proc["r1"].cfg = CfgA /\ proc["r2"].cfg = CfgB
  /\ nlinks = 2
  /\ configs["t1"] = CfgA

\* the destination as the claim words it: the per-type entry when it exists,
\* else the default topic when it is set
TopicAsClaimed(config, type) ==
  LET by_type == IF "topics_by_type" \in DOMAIN config
                 THEN config.topics_by_type ELSE EmptyMap
  IN IF type \in DOMAIN by_type THEN by_type[type]
     ELSE IF "publish_topic" \in DOMAIN config /\ config.publish_topic # ""
          THEN config.publish_topic
          ELSE None

\* the destination with empty entries read as absent
TopicNonEmpty(config, type) ==
  LET by_type == IF "topics_by_type" \in DOMAIN config
                 THEN config.topics_by_type ELSE EmptyMap
  IN IF type \in DOMAIN by_type /\ by_type[type] # "" THEN by_type[type]
     ELSE IF "publish_topic" \in DOMAIN config /\ config.publish_topic # ""
          THEN config.publish_topic
          ELSE None

Sent(connected, topic, data) ==
  IF connected /\ topic # None THEN {[topic |-> topic, payload |-> data]} ELSE {}

PublishCalled(r) == proc[r].pc = "done" /\ proc[r].route = "publish"

\* C7 as stated: publish sends to the per-type entry whenever that entry
\* exists, else to the default topic when set, and nothing when not connected
\* or when neither resolves.
C7_TopicAsClaimed ==
  \A r \in Requests :
     PublishCalled(r) =>
        proc[r].pub = Sent(proc[r].had_link,
                           TopicAsClaimed(proc[r].cfg, proc[r].msg.type), proc[r].msg)

\* C7 amended: publish sends to the per-type entry when that entry exists and
\* is not empty, else to the default topic when it is set and not empty, and
\* nothing when not connected or when neither resolves.
C7_TopicResolution ==
  \A r \in Requests :
     PublishCalled(r) =>
        proc[r].pub = Sent(proc[r].had_link,
                           TopicNonEmpty(proc[r].cfg, proc[r].msg.type), proc[r].msg)

\* C7 witness: a connected wrapper whose per-type entry for the event is empty
\* published the event to the default topic.
C7_Witness ==
  /\ PublishCalled("r1")
  /\ proc["r1"].had_link
  /\ proc["r1"].msg.type = "arrival"
  /\ "topics_by_type" \in DOMAIN proc["r1"].cfg
  /\ proc["r1"].cfg.topics_by_type = [x \in {"arrival"} |-> ""]
  /\ proc["r1"].pub = {[topic |-> "default", payload |-> proc["r1"].msg]}

\* C8: a finished setConfig for a well-formed body reports success exactly
\* when it left the tenant a connected link, a failure otherwise, and has
\* stored the config.
C8_SuccessIffConnected ==
  \A r \in Requests :
     proc[r].pc = "done" /\ proc[r].route = "config" /\ ~proc[r].malformed =>
        /\ proc[r].result = "success" <=> proc[r].had_link
        /\ Stored(proc[r].user_key) = proc[r].cfg

\* C9: every message the transport delivered has been handed to the event
\* loop.
C9_InboundHandedOver == loop_tasks = mqtt_inbound

\* request r returns from an ingestion route in this step
EventDone(r) ==
  /\ proc[r].pc # "done" /\ proc'[r].pc = "done"
  /\ proc'[r].route \in EventRoutes /\ ~proc'[r].malformed

\* C10: a well-formed submission on any ingestion route ends in success after
\* its broadcast, and has published the event when the tenant's link is
\* connected (and nothing when there is no connected link).
C10_BroadcastAndPublish ==
  [][\A r \in Requests :
       EventDone(r) =>
          /\ proc'[r].result = "received"
          /\ proc'[r].todo = {}
          /\ proc'[r].pub = UNION {Publish(c, proc'[r].msg) :
                                     c \in GetClient(Mgr, proc'[r].user_key)}
    ]_vars

\* the handler of s is in the broadcast of its initial status
InStatus(s) ==
  proc[s].phase = "ws_status" /\ proc[s].pc \in {"wait_bcast", "sending"}

\* C11: the step that admits a socket for T adds it to T's set, runs
\* ensure_connection and starts one system_status broadcast whose mqtt_status
\* is "Connected" exactly when T's client is connected after that step; until
\* the handler reads from the socket it stays in that one broadcast, with that
\* message, sending at most once to each socket of the snapshot, and the
\* snapshot holds sockets registered for T only.
C11_AdmissionOrderAndStatus ==
  [][\A s \in Sockets :
       /\ \A t \in Tenants :
            AdmitStep(s) /\ proc'[s].user_key = t =>
               /\ s \in SocketsOf(active_connections, t)'
               /\ InStatus(s)'
               /\ proc'[s].msg.type = "system_status"
               /\ proc'[s].msg.data \in {"Connected", "Not Configured or Disconnected"}
               /\ proc'[s].msg.data = "Connected" <=> ClientConnected(Mgr, t)'
               /\ proc'[s].pc = "sending" =>
                    proc'[s].snapshot = SocketsOf(active_connections, t)'
       /\ InStatus(s) /\ proc'[s] # proc[s] =>
            /\ proc'[s].pc \in {"sending", "receiving", "crashed"}
            /\ proc'[s].msg = proc[s].msg
            /\ proc'[s].pc = "sending" /\ proc[s].pc = "sending" =>
                 /\ proc'[s].todo \subseteq proc[s].todo
                 /\ proc'[s].todo # proc[s].todo
                 /\ proc'[s].snapshot = proc[s].snapshot
       /\ InStatus(s)' /\ proc'[s].pc = "sending" =>
            \A c \in proc'[s].snapshot : proc'[c].user_key = proc'[s].user_key
    ]_vars

\* C11 witness: a socket admitted while the tenant's link is connected sends
\* "Connected" to the two sockets its tenant has then.
C11_Witness ==
  /\ proc["s1"].pc = "sending" /\ proc["s1"].phase = "ws_status"
  /\ proc["s1"].msg.data = "Connected"
  /\ ClientConnected(Mgr, "t1")
  /\ \E c \in Sockets \ {"s1"} : proc["s1"].snapshot = {"s1", c}

\* no websocket handler of t is inside its admission or its finally block,
\* and no set_mqtt_config for t is part-way through
Settled(t) ==
  \A p \in Procs :
     proc[p].user_key = t =>
        \/ proc[p].route = "ws" /\ proc[p].pc \in {"receiving", "crashed"}
        \/ proc[p].route = "config" /\ proc[p].pc = "done"
        \/ proc[p].route \in EventRoutes \cup {"get_config"}

\* C12: whenever no admission, close or setConfig for a tenant is part-way
\* through and the tenant has no admitted socket, the manager holds no link
\* for the tenant.
C12_NoLinkWithoutListeners ==
  \A t \in Tenants :
     Settled(t) /\ SocketsOf(active_connections, t) = {} => t \notin DOMAIN clients

\* coroutine p enters the for loop of a broadcast_to_user call in this step
StartsSending(p) ==
  /\ proc'[p].pc = "sending"
  /\ proc[p].pc # "sending" \/ proc'[p].phase # proc[p].phase

\* coroutine p reaches the lock of a broadcast_to_user call and has to wait
StartsWaiting(p) == proc'[p].pc = "wait_bcast" /\ proc[p].pc # "wait_bcast"

Sending == {p \in Procs : proc[p].pc = "sending"}

\* C13: broadcasts run one at a time and in the order in which they were
\* invoked: at most one call is inside its for loop; a call enters it only
\* when no earlier call waits, or as the earliest waiting one; a call that
\* has to wait queues behind every earlier one; and the running call sends
\* its one message to sockets of its snapshot only.  So the sends of two
\* broadcasts to a socket never interleave and arrive in invocation order.
C13_PerTenantOrder ==
  [][/\ Cardinality(Sending') <= 1
     /\ \A p \in Procs :
          /\ StartsSending(p) =>
               /\ Sending \ {p} = {}
               /\ ws_waiters = <<>> \/ Head(ws_waiters) = p
               /\ ws_locked' = p
          /\ StartsWaiting(p) =>
               /\ ws_waiters' = Append(ws_waiters, p)
                    \/ ws_waiters' = Append(Tail(ws_waiters), p)
          /\ proc[p].pc = "sending" /\ proc'[p].pc = "sending"
             /\ proc'[p].phase = proc[p].phase =>
               /\ proc'[p].msg = proc[p].msg
               /\ proc'[p].snapshot = proc[p].snapshot
     /\ \/ ws_waiters' = ws_waiters
        \/ ws_waiters # <<>> /\ ws_waiters' = Tail(ws_waiters)
        \/ \E p \in Procs : ws_waiters' = Append(ws_waiters, p)
        \/ \E p \in Procs : /\ ws_waiters # <<>>
                             /\ ws_waiters' = Append(Tail(ws_waiters), p)
    ]_vars

\* C13 witness: one broadcast is in its for loop while two later ones wait
\* in the order in which they reached the lock.
C13_Witness ==
  /\ proc["r1"].pc = "sending" /\ proc["r1"].phase = "event"
  /\ Len(ws_waiters) = 2
  /\ \A i \in 1..2 : proc[ws_waiters[i]].pc \in {"wait_bcast", "wait_admit", "wait_close"}
  /\ Cardinality(proc["r1"].snapshot) = 2

\* C14: a finished setConfig during which writing the config file failed does
\* not report success, and the config in memory is the new one.
C14_PersistFailureReported ==
  \A r \in Requests :
     /\ proc[r].pc = "done" /\ proc[r].route = "config"
     /\ ~proc[r].malformed /\ ~proc[r].io_ok
     => /\ proc[r].result # "success"
        /\ Stored(proc[r].user_key) = proc[r].cfg

\* C17: whenever the hub's lock is not held, every tenant key of the hub's
\* map has at least one socket.
C17_NoEmptySets ==
  ws_locked = NoProc =>
     \A t \in DOMAIN active_connections : active_connections[t] # {}

\* the connect that set_config attempts with this body succeeds
ConnectWorks(config) == DOMAIN config # {} /\ ConnectSucceeds(config, broker_up)

\* C15: a setConfig step tears the tenant's previous link down whatever
\* happens to the new one; a link the tenant has afterwards is a new wrapper
\* built from the new config; when the new connect fails the tenant has no
\* link at all; and a tenant without a link gets one only by a later
\* admission's ensure_connection or a later setConfig.
C15_TeardownBeforeRecreate ==
  [][\A t \in Tenants :
       /\ \A r \in Requests :
            SetStep(r, t) =>
               /\ t \in DOMAIN clients =>
                    \/ clients[t] \notin DOMAIN links'
                    \/ ~links'[clients[t]].is_connected
               /\ t \in DOMAIN clients' =>
                    /\ nlinks' = nlinks + 1
                    /\ clients'[t] = nlinks'
                    /\ links'[nlinks'].config = proc'[r].cfg
                    /\ links'[nlinks'].is_connected
               /\ ~ConnectWorks(proc'[r].cfg) =>
                    /\ t \notin DOMAIN clients'
                    /\ LiveLinks(t)' = {}
       /\ t \notin DOMAIN clients /\ t \in DOMAIN clients' =>
            \/ \E s \in Sockets : AdmitStep(s) /\ proc'[s].user_key = t
            \/ \E r \in Requests : SetStep(r, t)
    ]_vars

\* C15 witness: a socket was admitted under a connected link, then a
\* setConfig whose connect failed ended with HTTP 400 and the tenant has no
\* link left.
C15_Witness ==
  /\ proc["s1"].pc = "receiving" /\ proc["s1"].msg.data = "Connected"
  /\ proc["r1"].pc = "done" /\ proc["r1"].route = "config"
  /\ proc["r1"].result = "400" /\ proc["r1"].cfg = CfgB
  /\ nlinks = 2
  /\ "t1" \notin DOMAIN clients /\ links = EmptyMap

\* event data that carries something the payload did not have
Marked(msg, payload) == msg.data # payload.data

\* C16: once the broker has delivered messages, whatever their payload, the
\* relay of each has been started, and the event made from a payload whose
\* timestamp is not an integer carries an error marker.
C16_MalformedTimestampMarked ==
  mqtt_inbound > 0 =>
     /\ loop_tasks > 0
     /\ \A p \in InboundPayloads :
          p.json /\ p.data.timestamp = "abc" => Marked(OnMqttMessageCallback(p), p)

\* session teardowns (loop_stop and client.disconnect) a disconnect() of w runs
Teardowns(w) == IF w.is_connected THEN 1 ELSE 0

\* C18: in every reachable state, disconnect() leaves a wrapper disconnected
\* and a second disconnect() changes nothing and tears nothing down; and
\* disconnect_user(T) removes T's wrapper from the map and disconnects it,
\* changes nothing for a tenant without a wrapper, touches neither the
\* configs nor other tenants, and applied again changes nothing.
C18_DisconnectIdempotent ==
  /\ \A i \in DOMAIN links :
        LET w1 == Disconnect(links[i])
        IN /\ ~w1.is_connected
           /\ Disconnect(w1) = w1
           /\ Teardowns(links[i]) + Teardowns(w1) <= 1
  /\ \A t \in Tenants :
        LET m1 == DisconnectUser(Mgr, t)
        IN /\ DisconnectUser(m1, t) = m1
           /\ t \notin DOMAIN m1.clients
           /\ t \in DOMAIN clients =>
                \/ clients[t] \notin DOMAIN m1.links
                \/ ~m1.links[clients[t]].is_connected
           /\ t \notin DOMAIN clients => m1 = Mgr
           /\ m1.configs = configs /\ m1.nlinks = nlinks
           /\ \A u \in DOMAIN clients \ {t} :
                u \in DOMAIN m1.clients /\ m1.links[m1.clients[u]] = links[clients[u]]

\* C18 witness: two wrappers were built and both torn down; no socket is
\* open and disconnect_user finds nothing to do.
C18_Witness ==
  /\ nlinks = 2
  /\ links = EmptyMap /\ clients = EmptyMap
  /\ active_connections = EmptyMap
  /\ \A s \in Sockets : proc[s].pc = "idle"
  /\ broker_up = Hosts

\* the tenant has no stored config (`if user_config:` fails)
NoConfig(t) == t \notin DOMAIN configs \/ configs[t] = EmptyCfg

\* C19: the admission of a socket of a tenant without a stored config builds
\* no wrapper, attempts no connect and leaves the manager's maps as they
\* were; the socket is admitted all the same and gets its status, and the
\* broadcast of a submitted event goes to every socket the tenant has.
C19_NoConfigNoLink ==
  [][/\ \A s \in Sockets, t \in Tenants :
          AdmitStep(s) /\ proc'[s].user_key = t /\ NoConfig(t) =>
             /\ clients' = clients /\ configs' = configs
             /\ links' = links /\ nlinks' = nlinks
             /\ s \in SocketsOf(active_connections, t)'
             /\ proc'[s].pc \in {"sending", "wait_bcast"}
             /\ proc'[s].msg = StatusMsg("Not Configured or Disconnected")
     /\ \A r \in Requests :
          StartsSending(r) /\ proc'[r].phase = "event" =>
             proc'[r].snapshot = SocketsOf(active_connections, proc'[r].user_key)
    ]_vars

\* C19 witness: with no config and no wrapper ever built, an admitted socket
\* is in its read loop and a submitted event was delivered to it.
C19_Witness ==
  /\ configs = EmptyMap /\ nlinks = 0
  /\ proc["s1"].pc = "receiving"
  /\ proc["r1"].pc = "done" /\ proc["r1"].phase = "event"
  /\ proc["r1"].result = "received" /\ proc["r1"].delivered = {"s1"}

\* the admission of s for t makes ensure_connection attempt a connect
Attempts(s, t) ==
  /\ AdmitStep(s) /\ proc'[s].user_key = t
  /\ ~NoConfig(t) /\ ~ClientConnected(Mgr, t)

\* C20: every ensure_connection call for a tenant with a config and no
\* connected link makes one new connect attempt; when it fails the call
\* still returns (the handler goes on to its status broadcast), the wrapper
\* is not stored and nothing of it stays connected; when it succeeds the new
\* wrapper is installed; and no wrapper is built in any other step.
C20_ConnectFailureSwallowed ==
  [][\A t \in Tenants :
       /\ \A s \in Sockets :
            Attempts(s, t) =>
               /\ nlinks' = nlinks + 1
               /\ s \in SocketsOf(active_connections, t)'
               /\ proc'[s].pc \in {"sending", "wait_bcast"}
               /\ IF ConnectSucceeds(configs[t], broker_up)
                  THEN /\ t \in DOMAIN clients' /\ clients'[t] = nlinks'
                       /\ links'[nlinks'].is_connected
                       /\ proc'[s].msg = StatusMsg("Connected")
                  ELSE /\ t \notin DOMAIN clients'
                       /\ nlinks' \notin DOMAIN links'
                       /\ LiveLinks(t)' = {}
                       /\ proc'[s].msg = StatusMsg("Not Configured or Disconnected")
       /\ nlinks' # nlinks =>
            \/ \E s \in Sockets : AdmitStep(s)
            \/ \E r \in Requests, u \in Tenants : SetStep(r, u)
    ]_vars

\* C20 witness: the connect attempted for the first socket failed, the one
\* attempted for the second socket succeeded and its wrapper is installed.
C20_Witness ==
  /\ proc["s1"].pc = "receiving"
  /\ proc["s1"].msg = StatusMsg("Not Configured or Disconnected")
  /\ proc["s2"].pc = "receiving" /\ proc["s2"].msg = StatusMsg("Connected")
  /\ nlinks = 2
  /\ "t1" \in DOMAIN clients /\ clients["t1"] = 2 /\ links[2].is_connected

\* C21: the close of a socket of T removes that socket from T's set and no
\* other; every other coroutine stays where it is; the sets and the wrappers
\* of the other tenants and all configs are unchanged; and T's wrapper is
\* unchanged unless the closed socket left T's set empty.
C21_CloseAffectsOnlyThatSocket ==
  [][\A s \in Sockets, t \in Tenants :
       CloseStep(s) /\ proc[s].user_key = t =>
          /\ SocketsOf(active_connections, t)' = SocketsOf(active_connections, t) \ {s}
          /\ \A p \in Procs \ {s} : proc'[p] = proc[p]
          /\ \A u \in Tenants \ {t} :
               /\ SocketsOf(active_connections, u)' = SocketsOf(active_connections, u)
               /\ GetClient(Mgr, u)' = GetClient(Mgr, u)
               /\ LiveLinks(u)' = LiveLinks(u)
          /\ configs' = configs
          /\ SocketsOf(active_connections, t) \ {s} # {} =>
               GetClient(Mgr, t)' = GetClient(Mgr, t) /\ LiveLinks(t)' = LiveLinks(t)
    ]_vars

\* C21 witness: a status went to both sockets of t1, then s2 was closed; s1
\* is still admitted and t1's link is still connected.
C21_Witness ==
  /\ proc["r1"].pc = "done" /\ proc["r1"].user_key = "t1"
  /\ proc["r1"].delivered = {"s1", "s2"}
  /\ proc["s2"].pc = "idle" /\ proc["s1"].pc = "receiving"
  /\ SocketsOf(active_connections, "t1") = {"s1"}
  /\ ClientConnected(Mgr, "t1")

\* C22: every socket registered under T was admitted with T's key, no socket
\* is registered under two tenants, and in every state of a fan-out for T the
\* snapshot, the sockets still to be sent to and the sockets already sent to
\* are sockets admitted with T's key and registered under T when the fan-out
\* began.
C22_FanOutTenantIsolation ==
  /\ \A t \in DOMAIN active_connections : \A c \in active_connections[t] :
        /\ c \in Sockets
        /\ proc[c].user_key = t
        /\ proc[c].pc \notin {"idle", "wait_admit"}
  /\ \A t, u \in DOMAIN active_connections :
        t # u => active_connections[t] \cap active_connections[u] = {}
  /\ \A p \in Sending :
        /\ proc[p].todo \subseteq proc[p].snapshot
        /\ proc[p].delivered \subseteq proc[p].snapshot
        /\ \A c \in proc[p].snapshot :
              /\ c \in Sockets
              /\ proc[c].user_key = proc[p].user_key
              /\ \A u \in Tenants \ {proc[p].user_key} :
                    c \notin SocketsOf(active_connections, u)

\* C22 witness: while t2 has a socket admitted, a status for t1 has been sent
\* to t1's socket and to no other.
C22_Witness ==
  /\ SocketsOf(active_connections, "t2") = {"s2"}
  /\ proc["s2"].pc = "receiving"
  /\ SocketsOf(active_connections, "t1") = {"s1"}
  /\ proc["r1"].pc = "done" /\ proc["r1"].user_key = "t1"
  /\ proc["r1"].snapshot = {"s1"} /\ proc["r1"].delivered = {"s1"}

\* the callback makes no event of the payload
Rejected(msg) == msg.type = NoMsg.type

C24_RegistryMutualExclusion ==
  [][/\ Cardinality(Sending) <= 1
     /\ \A p \in Procs : proc[p].pc = "sending" <=> ws_locked = p
     /\ \A h \in Procs : ws_locked = h =>
          /\ \A s \in Sockets \ {h} : ~AdmitStep(s) /\ ~CloseStep(s)
          /\ \A p \in Procs \ {h} : proc'[p].pc # "sending"
          /\ active_connections' # active_connections =>
               /\ proc'[h] # proc[h]
               /\ \E c \in proc[h].todo :
                    /\ proc[h].user_key \in DOMAIN active_connections
                    /\ active_connections' =
                         [active_connections EXCEPT ![proc[h].user_key] = @ \ {c}]
          /\ proc'[h].pc = "sending" /\ proc'[h].phase = proc[h].phase =>
               /\ ws_locked' = h
               /\ proc'[h].snapshot = proc[h].snapshot
               /\ proc[h].todo \subseteq proc[h].snapshot
     /\ ws_locked = NoProc /\ active_connections' # active_connections =>
          \E s \in Sockets :
             /\ AdmitStep(s) \/ CloseStep(s)
             /\ ws_locked' \in {NoProc, s}
             /\ ws_waiters # <<>> => Head(ws_waiters) = s
    ]_vars

\* C24 witness: a broadcast has sent to one socket of its snapshot and not yet
\* to the other, whose handler waits at the lock to remove it; the socket is
\* still registered.
C24_Witness ==
  /\ proc["r1"].pc = "sending" /\ ws_locked = "r1"
  /\ proc["r1"].delivered = {"s1"} /\ proc["r1"].todo = {"s2"}
  /\ proc["s2"].pc = "wait_close" /\ ws_waiters = <<"s2">>
  /\ "s2" \in SocketsOf(active_connections, proc["r1"].user_key)

\* C25: in every reachable state every wrapper the clients map holds exists,
\* belongs to the tenant it is stored under and has is_connected true, so a
\* get_client that returns a wrapper returns a connected one.
C25_MapHoldsConnectedLinks ==
  \A t \in Tenants :
     /\ t \in DOMAIN clients =>
          /\ clients[t] \in DOMAIN links
          /\ links[clients[t]].user_key = t
          /\ links[clients[t]].is_connected
     /\ \A c \in GetClient(Mgr, t) : c.is_connected /\ c.user_key = t

\* C25 witness: t1's wrapper is in the map, connected; t2 has a config and a
\* socket, its connect failed with the broker down, and the map has no entry
\* for t2.
C25_Witness ==
  /\ "t1" \in DOMAIN clients /\ links[clients["t1"]].is_connected
  /\ HasConfig(Mgr, "t2")
  /\ "t2" \notin DOMAIN clients
  /\ proc["s2"].user_key = "t2" /\ proc["s2"].pc = "receiving"
  /\ nlinks = 2 /\ broker_up = {}

\* a set_config call for t has stored its config and not yet run its
\* ensure_connection
PartWay(t) ==
  \E r \in Requests :
     /\ proc[r].route = "config" /\ proc[r].user_key = t
     /\ proc[r].pc \in {"stored", "saved", "dropped"}

\* C26: in every reachable state where no set_config call for T is between
\* its store and its ensure_connection, the wrapper the clients map holds for
\* T, if any, was built from the config now stored for T.
C26_NoStaleConfigLink ==
  \A t \in Tenants :
     ~PartWay(t) =>
        \A c \in GetClient(Mgr, t) :
           t \in DOMAIN configs /\ c.config = configs[t]

\* C26 witness: with the tenant's socket admitted, the config went from one
\* broker config to another; both calls are over and the wrapper in the map
\* is the second one built, holding the config stored now.
C26_Witness ==
  /\ ~PartWay("t1")
  /\ proc["s1"].pc = "receiving"
  /\ proc["r1"].pc = "done" /\ proc["r1"].cfg = CfgA
  /\ proc["r2"].pc = "done" /\ proc["r2"].cfg = CfgB
  /\ nlinks = 2
  /\ \E c \in GetClient(Mgr, "t1") : c.config = CfgB /\ configs["t1"] = CfgB
====
